---- MODULE Spec2Model ----
(***************************************************************************)
(* Model of the fingerprinting experiment of main.py: EntropyCalculator,   *)
(* BrowserSession and ExperimentManager.run_experiment with the sessions   *)
(* it runs, the files it writes, the browser processes it starts and the   *)
(* profile directories it makes; and of ResultsAnalyzer of                 *)
(* analyze_results.py, which reads the files of a finished run.            *)
(*                                                                         *)
(* Conventions.  A Python dict is a function (a record), None is the       *)
(* record PyNone, a Python list is a sequence, a Python float is the       *)
(* double it is.  A string the code edits (a website URL, a file name) is  *)
(* a sequence of tokens: "https://" is one token, "/" is one token, "?" is *)
(* one token.                                                              *)
(***************************************************************************)
EXTENDS Naturals, Integers, Sequences, FiniteSets, TLC

(***************************************************************************)
(* Bounds of the model.                                                    *)
(***************************************************************************)
MaxWebsites == 2

\* The longest list given to calculate_shannon_entropy.
MaxLen == 6

\* The most calls a category of a log given to
\* calculate_attribute_entropies holds.
MaxCalls == 3

(***************************************************************************)
(* Python values.                                                          *)
(***************************************************************************)
PyNone == [py_none |-> TRUE]

EmptyDict == [k \in {} |-> 0]

\* bool(v) for the values the model passes to `if`: None and the empty dict
\* are false, a dict with a key is true.
Truthy(v) == v # PyNone /\ DOMAIN v # {}

\* d.get(key, default)
DictGet(d, key, default) == IF key \in DOMAIN d THEN d[key] ELSE default

Last(s) == s[Len(s)]

Range(s) == {s[i] : i \in DOMAIN s}

(***************************************************************************)
(* Python floats.  A float of the model is the IEEE double itself: a       *)
(* non-negative multiple n of 2^-56 below 16, written as the six digits of *)
(* n in base 1024, lowest digit first.  Every double from 2^-4 to 16 is    *)
(* such a multiple, and so is 0.0.                                         *)
(***************************************************************************)
Zero == <<0, 0, 0, 0, 0, 0>>

RECURSIVE AddDigits(_, _, _, _)
AddDigits(x, y, i, carry) ==
  IF i > Len(x) THEN <<>>
  ELSE LET s == x[i] + y[i] + carry
       IN <<s % 1024>> \o AddDigits(x, y, i + 1, s \div 1024)

RECURSIVE BitLen(_)
BitLen(d) == IF d = 0 THEN 0 ELSE 1 + BitLen(d \div 2)

RECURSIVE TopDigit(_, _)
TopDigit(x, i) ==
  IF i = 0 THEN 0 ELSE IF x[i] # 0 THEN i ELSE TopDigit(x, i - 1)

\* The number of bits of the integer the digits write.
Bits(x) ==
  LET t == TopDigit(x, Len(x))
  IN IF t = 0 THEN 0 ELSE 10 * (t - 1) + BitLen(x[t])

RECURSIVE Pow2(_)
Pow2(k) == IF k = 0 THEN 1 ELSE 2 * Pow2(k - 1)

\* The unit in the last place of a double whose integer has `bits` bits:
\* a double keeps 53 of them.
Ulp(bits) == IF bits > 53 THEN Pow2(bits - 53) ELSE 1

\* x * m for a small m.
RECURSIVE MulSmall(_, _, _, _)
MulSmall(x, m, i, carry) ==
  IF i > Len(x) THEN <<>>
  ELSE LET s == x[i] * m + carry
       IN <<s % 1024>> \o MulSmall(x, m, i + 1, s \div 1024)

\* x divided by a small m, from the highest digit down: the quotient and
\* the remainder.
RECURSIVE DivSmall(_, _, _, _)
DivSmall(x, m, i, rem) ==
  IF i = 0 THEN [quotient |-> <<>>, remainder |-> rem]
  ELSE LET cur == rem * 1024 + x[i]
           rest == DivSmall(x, m, i - 1, cur % m)
       IN [quotient |-> Append(rest.quotient, cur \div m),
           remainder |-> rest.remainder]

\* The double nearest to x / n, ties to the even significand.
RoundedQuotient(x, n) ==
  LET ulp == Ulp(Bits(DivSmall(x, n, Len(x), 0).quotient))
      d == DivSmall(x, n * ulp, Len(x), 0)
      odd == d.quotient[1] % 2 = 1
      up == \/ 2 * d.remainder > n * ulp
            \/ 2 * d.remainder = n * ulp /\ odd
      kept == IF up THEN AddDigits(d.quotient, <<1, 0, 0, 0, 0, 0>>, 1, 0)
                    ELSE d.quotient
  IN MulSmall(kept, ulp, 1, 0)

\* x + y of two floats: the sum, rounded to the nearest double, ties to
\* the even significand.  The unit in the last place is below 1024 for the
\* floats of the model, so the rounding is one of the lowest digit.
FloatAdd(x, y) ==
  LET sum == AddDigits(x, y, 1, 0)
      ulp == Ulp(Bits(sum))
      low == sum[1] % ulp
      odd == (sum[1] \div ulp) % 2 = 1
      down == [sum EXCEPT ![1] = sum[1] - low]
  IN IF 2 * low > ulp \/ (2 * low = ulp /\ odd)
     THEN AddDigits(down, [Zero EXCEPT ![1] = ulp], 1, 0)
     ELSE down

\* x / n of a float and an int.
FloatDiv(x, n) == RoundedQuotient(x, n)

\* x < y
RECURSIVE LessFrom(_, _, _)
LessFrom(x, y, i) ==
  IF i = 0 THEN FALSE
  ELSE IF x[i] # y[i] THEN x[i] < y[i]
  ELSE LessFrom(x, y, i - 1)

FloatLess(x, y) == LessFrom(x, y, Len(x))

\* x - y digit by digit, for x not below y.
RECURSIVE SubDigits(_, _, _, _)
SubDigits(x, y, i, borrow) ==
  IF i > Len(x) THEN <<>>
  ELSE LET d == x[i] - y[i] - borrow
       IN <<(d + 1024) % 1024>>
            \o SubDigits(x, y, i + 1, IF d < 0 THEN 1 ELSE 0)

\* abs(x - y) of two floats: the difference is rounded as a sum is, to the
\* nearest double with ties to the even significand, and the rounding of
\* y - x is the negation of the rounding of x - y.
FloatAbsDiff(x, y) ==
  LET diff == IF FloatLess(x, y) THEN SubDigits(y, x, 1, 0)
                                 ELSE SubDigits(x, y, 1, 0)
      ulp == Ulp(Bits(diff))
      low == diff[1] % ulp
      odd == (diff[1] \div ulp) % 2 = 1
      down == [diff EXCEPT ![1] = diff[1] - low]
  IN IF 2 * low > ulp \/ (2 * low = ulp /\ odd)
     THEN AddDigits(down, [Zero EXCEPT ![1] = ulp], 1, 0)
     ELSE down

(***************************************************************************)
(* EntropyCalculator.                                                      *)
(***************************************************************************)
\* The double -(p * math.log2(p)) for p = count / total (lines 68-70), for
\* total up to 11; EntropyTerm(count, total) is row total, column count.
EntropyTerm(count, total) ==
  LET table == <<
      <<<<0, 0, 0, 0, 0, 0>>>>,
      <<<<0, 0, 0, 0, 0, 32>>,
        <<0, 0, 0, 0, 0, 0>>>>,
      <<<<216, 935, 991, 34, 832, 33>>,
        <<776, 163, 277, 411, 981, 24>>,
        <<0, 0, 0, 0, 0, 0>>>>,
      <<<<0, 0, 0, 0, 0, 32>>,
        <<0, 0, 0, 0, 0, 32>>,
        <<792, 199, 328, 945, 943, 19>>,
        <<0, 0, 0, 0, 0, 0>>>>,
      <<<<928, 875, 355, 999, 737, 29>>,
        <<216, 318, 97, 565, 861, 33>>,
        <<152, 125, 306, 682, 306, 28>>,
        <<236, 841, 1013, 310, 494, 16>>,
        <<0, 0, 0, 0, 0, 0>>>>,
      <<<<276, 638, 154, 700, 586, 27>>,
        <<216, 935, 991, 34, 832, 33>>,
        <<0, 0, 0, 0, 0, 32>>,
        <<776, 163, 277, 411, 981, 24>>,
        <<416, 736, 143, 190, 29, 14>>,
        <<0, 0, 0, 0, 0, 0>>>>,
      <<<<56, 151, 97, 265, 683, 25>>,
        <<552, 9, 48, 969, 49, 33>>,
        <<48, 421, 186, 165, 541, 33>>,
        <<968, 457, 827, 767, 538, 29>>,
        <<628, 991, 823, 535, 195, 22>>,
        <<388, 988, 957, 622, 204, 12>>,
        <<0, 0, 0, 0, 0, 0>>>>,
      <<<<0, 0, 0, 0, 0, 24>>,
        <<0, 0, 0, 0, 0, 32>>,
        <<912, 99, 676, 984, 983, 33>>,
        <<0, 0, 0, 0, 0, 32>>,
        <<808, 974, 39, 845, 125, 27>>,
        <<792, 199, 328, 945, 943, 19>>,
        <<792, 994, 300, 40, 807, 10>>,
        <<0, 0, 0, 0, 0, 0>>>>,
      <<<<484, 623, 1002, 705, 554, 22>>,
        <<404, 1019, 70, 843, 881, 30>>,
        <<216, 935, 991, 34, 832, 33>>,
        <<688, 559, 369, 548, 284, 33>>,
        <<412, 115, 156, 640, 154, 30>>,
        <<776, 163, 277, 411, 981, 24>>,
        <<688, 583, 231, 85, 49, 18>>,
        <<132, 209, 170, 869, 682, 9>>,
        <<0, 0, 0, 0, 0, 0>>>>,
      <<<<364, 540, 75, 602, 266, 21>>,
        <<928, 875, 355, 999, 737, 29>>,
        <<792, 881, 357, 136, 358, 33>>,
        <<216, 318, 97, 565, 861, 33>>,
        <<0, 0, 0, 0, 0, 32>>,
        <<152, 125, 306, 682, 306, 28>>,
        <<308, 482, 769, 150, 54, 23>>,
        <<236, 841, 1013, 310, 494, 16>>,
        <<458, 427, 443, 519, 773, 8>>,
        <<0, 0, 0, 0, 0, 0>>>>,
      <<<<472, 719, 559, 680, 130, 20>>,
        <<292, 787, 467, 709, 633, 28>>,
        <<864, 1020, 308, 244, 735, 32>>,
        <<304, 271, 656, 115, 988, 33>>,
        <<424, 396, 593, 200, 93, 33>>,
        <<800, 86, 711, 581, 539, 30>>,
        <<984, 918, 133, 697, 570, 26>>,
        <<40, 1008, 753, 696, 393, 21>>,
        <<942, 673, 912, 460, 163, 15>>,
        <<670, 606, 1000, 214, 0, 8>>,
        <<0, 0, 0, 0, 0, 0>>>>
      >>
  IN table[total][count]

\* The keys of freq_dict in the order of their insertion: the distinct
\* values of data in the order of their first occurrence (lines 59-62).
RECURSIVE FirstOccurrences(_)
FirstOccurrences(data) ==
  IF data = <<>> THEN <<>>
  ELSE LET before == FirstOccurrences(SubSeq(data, 1, Len(data) - 1))
       IN IF Last(data) \in Range(before) THEN before
          ELSE Append(before, Last(data))

\* The loop of lines 67-70 over the first n values of freq_dict: each term
\* is added to the float `entropy` in turn.
RECURSIVE EntropyLoop(_, _, _)
EntropyLoop(data, keys, n) ==
  IF n = 0 THEN Zero
  ELSE LET count == Cardinality({i \in DOMAIN data : data[i] = keys[n]})
       IN FloatAdd(EntropyLoop(data, keys, n - 1),
                   EntropyTerm(count, Len(data)))

\* Mutant of calculate_shannon_entropy: the last value of freq_dict is left
\* out of the sum.
MutEntropySkipsLastValue(data) ==
  IF data = <<>> THEN Zero
  ELSE LET keys == FirstOccurrences(data)
       IN EntropyLoop(data, keys, Len(keys) - 1)

\* calculate_shannon_entropy(data): 0.0 for no data, else the sum over the
\* distinct values of -p*log2(p), p the relative frequency of the value.
calculate_shannon_entropy(data) ==
  IF data = <<>> THEN Zero
  ELSE LET keys == FirstOccurrences(data)
       IN EntropyLoop(data, keys, Len(keys))

\* [str(call.get('value', '')) for call in calls if 'value' in call]
RECURSIVE ExtractValues(_)
ExtractValues(calls) ==
  IF calls = <<>> THEN <<>>
  ELSE LET call == Head(calls)
       IN (IF "value" \in DOMAIN call THEN <<call.value>> ELSE <<>>)
          \o ExtractValues(Tail(calls))

\* The order in which the model walks the categories of a log (dict order
\* in the code).
CategoryOrder == <<"canvas", "webgl", "audio", "navigator">>

RECURSIVE AllValues(_, _)
AllValues(fingerprint_data, i) ==
  IF i > Len(CategoryOrder) THEN <<>>
  ELSE (IF CategoryOrder[i] \in DOMAIN fingerprint_data
        THEN ExtractValues(fingerprint_data[CategoryOrder[i]])
        ELSE <<>>)
       \o AllValues(fingerprint_data, i + 1)

\* The key under which the aggregate entropy is stored (line 104).
TotalKey == "total"

\* Mutant of calculate_attribute_entropies: 'total' is stored only when
\* some value was extracted.
MutEntropiesTotalOnlyWithValues(fingerprint_data) ==
  LET all_values == AllValues(fingerprint_data, 1)
  IN [category \in (DOMAIN fingerprint_data \ {TotalKey})
                    \cup (IF all_values # <<>> THEN {TotalKey} ELSE {}) |->
        IF category = TotalKey
        THEN calculate_shannon_entropy(all_values)
        ELSE LET calls == fingerprint_data[category]
                 values == ExtractValues(calls)
             IN IF calls # <<>> /\ values # <<>>
                THEN calculate_shannon_entropy(values)
                ELSE Zero]

\* Mutant of calculate_attribute_entropies: 'total' is the sum of the
\* entropies of the categories.
RECURSIVE SumOfCategories(_, _)
SumOfCategories(fingerprint_data, i) ==
  IF i = 0 THEN Zero
  ELSE FloatAdd(SumOfCategories(fingerprint_data, i - 1),
                IF CategoryOrder[i] \in DOMAIN fingerprint_data
                THEN calculate_shannon_entropy(
                       ExtractValues(fingerprint_data[CategoryOrder[i]]))
                ELSE Zero)

MutEntropiesTotalIsSum(fingerprint_data) ==
  [category \in DOMAIN fingerprint_data \cup {TotalKey} |->
     IF category = TotalKey
     THEN SumOfCategories(fingerprint_data, Len(CategoryOrder))
     ELSE calculate_shannon_entropy(ExtractValues(fingerprint_data[category]))]

\* Mutant of calculate_attribute_entropies: a category without a call
\* gets no entry.
MutEntropiesSkipEmptyCategories(fingerprint_data) ==
  [category \in {c \in DOMAIN fingerprint_data : fingerprint_data[c] # <<>>}
                \cup {TotalKey} |->
     IF category = TotalKey
     THEN calculate_shannon_entropy(AllValues(fingerprint_data, 1))
     ELSE calculate_shannon_entropy(ExtractValues(fingerprint_data[category]))]

\* calculate_attribute_entropies(fingerprint_data): one entry per category
\* (0.0 for no calls or no call with a value) plus 'total', the entropy of
\* the values of all categories together.
calculate_attribute_entropies(fingerprint_data) ==
  [category \in DOMAIN fingerprint_data \cup {TotalKey} |->
     IF category = TotalKey
     THEN calculate_shannon_entropy(AllValues(fingerprint_data, 1))
     ELSE LET calls == fingerprint_data[category]
              values == ExtractValues(calls)
          IN IF calls # <<>> /\ values # <<>>
             THEN calculate_shannon_entropy(values)
             ELSE Zero]

(***************************************************************************)
(* Configuration and environment.                                          *)
(***************************************************************************)
\* self.browsers: config.get('browsers', ['chrome', 'firefox']).
browsers == <<"chrome", "firefox">>

\* The hosts of the configured websites, in the order of the list.
Hosts == <<"a.com", "b.org", "c.net", "d.de">>

\* A host whose name holds the substring 'report'.
ReportHost == "reports.org"

\* The URL of the i-th configured website: a plain https URL, or one with
\* a path and a query string.
Website(i, with_query) ==
  <<"https://", Hosts[i]>>
  \o (IF with_query THEN <<"/", "search", "?", "q">> ELSE <<>>)

\* The website lists a configuration may hold: MaxWebsites distinct sites,
\* at most one of them with a query string, or the first of them on a host
\* whose name holds 'report'.
WebsiteLists ==
  { [i \in 1..MaxWebsites |-> Website(i, i = q)] : q \in 0..MaxWebsites }
  \cup { [i \in 1..MaxWebsites |->
            IF i = 1 THEN <<"https://", ReportHost>> ELSE Website(i, FALSE)] }

\* self.session_duration default, seconds.
session_duration == 45

\* driver.set_page_load_timeout(30), seconds.
PageLoadTimeout == 30

\* Page load times the environment may produce, seconds.
LoadTimes == {5, 31}

\* Characters open() rejects in a file name on the program's platform
\* (Windows 10: the driver paths of lines 204 and 230).
InvalidFileNameChars == {"?", ":", "*", "<", ">", "|"}

\* What window.getFingerprintData() returns: a wrapper whose 'data' entry
\* is the fingerprint log, category -> list of call records.
LogNoCalls == [canvas |-> <<>>, webgl |-> <<>>]

LogWithCalls ==
  [canvas |-> <<[value |-> "a"], [value |-> "a"], [value |-> "b"]>>,
   webgl  |-> <<[value |-> "x"]>>]

\* A log of a page that calls an API of another category only.
LogAudioOnly == [audio |-> <<[value |-> "a"]>>]

ProbeReturns ==
  { [data |-> LogNoCalls], [data |-> LogWithCalls], [data |-> LogAudioOnly] }

\* What window.getFingerprintStats() returns: a mapping with a 'total'
\* count, or no value at all.
ProbeStats == { [total |-> 0], PyNone }

VisitStr(n) == IF n = 1 THEN "1" ELSE "2"

\* The inputs of the calculator: the values of the calls, the lists of
\* values, the calls of the two categories of a log (a call of webgl or of
\* canvas may carry no 'value'), and the logs.
Values == {"a", "b", "c", "x"}

ValueLists == UNION { [1..n -> Values] : n \in 0..MaxLen }

\* A list of eleven values that occur once each.
ElevenDistinct ==
  <<"v01", "v02", "v03", "v04", "v05", "v06", "v07", "v08", "v09", "v10",
    "v11">>

CanvasCalls == { [value |-> "a"], [value |-> "b"], [method |-> "toDataURL"] }

WebglCalls == { [value |-> "x"], [method |-> "getParameter"] }

CallLists(calls) == UNION { [1..n -> calls] : n \in 0..MaxCalls }

Logs ==
  {EmptyDict}
  \cup { [canvas |-> c] : c \in CallLists(CanvasCalls) }
  \cup { [canvas |-> c, webgl |-> g] :
           c \in CallLists(CanvasCalls), g \in CallLists(WebglCalls) }

\* The values of top_n print_top_fingerprinting_sites is called with: the
\* default of line 118, and a short list.
TopNs == {1, 20}

(***************************************************************************)
(* State.                                                                  *)
(***************************************************************************)
VARIABLES
  websites,             \* self.websites, the configured list
  visit_number,         \* the argument of run_experiment
  detector_readable,    \* whether open('detector.js') succeeds
  pc,                   \* position of the run
  w, b,                 \* indices of the current website and browser
  all_results,          \* run_experiment's list
  successful_sessions,  \* run_experiment's counter
  failed_sessions,      \* run_experiment's counter
  results_dir,          \* the files of the results directory
  session,              \* the BrowserSession of the current cell
  fingerprint_data,     \* what visit_website has retrieved / returns
  pending,              \* what run_single_session is about to return or raise
  result,               \* run_experiment's local `result`
  open_browsers,        \* the browser processes that are running
  clock,                \* datetime.now(): it advances from cell to cell
  attempted,            \* history: the cells run_single_session was called for
  interrupted,          \* history: a KeyboardInterrupt was caught (line 482)
  cell_exc,             \* history: where the current cell raised, or "none"
  n_before,             \* history: Len(all_results) when the cell started
  navigations,          \* history: the driver.get calls of the current cell
  seconds,              \* what int(time.time()) returned last (line 174)
  slept,                \* a time.sleep has returned since then
  user_data_dirs,       \* the directories _start_chrome has made, in order
  analyzer_results,     \* ResultsAnalyzer.results
  top_sites,            \* what print_top_fingerprinting_sites has listed
  calc_pc,              \* the call of the EntropyCalculator, or "idle"
  calc_arg,             \* its argument
  calc_ret,             \* what it returned
  view_pc,              \* the view of the ResultsAnalyzer being printed, or "idle"
  view,                 \* what the view has printed
  sim_pc,               \* position in _simulate_user_behavior, or "idle"
  time_now,             \* time.time(), in tenths of a second
  start_time,           \* _simulate_user_behavior's local
  duration,             \* its argument, in tenths of a second
  action,               \* its local: the action chosen for the iteration
  actions_performed,    \* its counter
  error_logged          \* history: the handler of line 320 has logged

config == <<websites, visit_number, detector_readable>>
counters == <<all_results, successful_sessions, failed_sessions>>
locals == <<session, fingerprint_data, pending, result>>
temp == <<seconds, slept, user_data_dirs>>
analyzer == <<analyzer_results, top_sites>>
calculator == <<calc_pc, calc_arg, calc_ret>>
views == <<view_pc, view>>
simulation == <<sim_pc, time_now, start_time, duration, action, actions_performed,
                error_logged>>
vars == <<websites, visit_number, detector_readable, pc, w, b, all_results,
          successful_sessions, failed_sessions, results_dir, session,
          fingerprint_data, pending, result, open_browsers, clock, attempted,
          interrupted, cell_exc, n_before, navigations, seconds, slept,
          user_data_dirs, analyzer_results, top_sites, calc_pc, calc_arg, calc_ret,
          view_pc, view, sim_pc, time_now, start_time, duration, action,
          actions_performed, error_logged>>

NoSession == [browser_type |-> "none", driver |-> 0]
NoPending == [kind |-> "none", value |-> PyNone]
NoTopSites == [top_n |-> 0, listed |-> <<>>]
NoView == [printed |-> "nothing"]

\* No view of the ResultsAnalyzer is being printed.
ViewsIdle ==
  /\ view_pc = "idle"
  /\ view = NoView

\* _simulate_user_behavior is not being followed statement by statement.
SimulationIdle ==
  /\ sim_pc = "idle"
  /\ time_now = 0
  /\ start_time = 0
  /\ duration = 0
  /\ action = "none"
  /\ actions_performed = 0
  /\ error_logged = FALSE

\* The state before run_experiment, but for the configuration.
BeforeRun ==
  /\ pc = "cell"
  /\ w = 1
  /\ b = 1
  /\ all_results = <<>>
  /\ successful_sessions = 0
  /\ failed_sessions = 0
  /\ results_dir = {}
  /\ session = NoSession
  /\ fingerprint_data = PyNone
  /\ pending = NoPending
  /\ result = PyNone
  /\ open_browsers = {}
  /\ clock = 1
  /\ attempted = <<>>
  /\ interrupted = FALSE
  /\ cell_exc = "none"
  /\ n_before = 0
  /\ navigations = 0
  /\ seconds = 0
  /\ slept = TRUE
  /\ user_data_dirs = <<>>
  /\ analyzer_results = <<>>
  /\ top_sites = NoTopSites

Init ==
  /\ websites \in WebsiteLists
  /\ visit_number \in {1, 2}
  /\ detector_readable \in BOOLEAN
  /\ BeforeRun
  /\ calc_pc = "idle"
  /\ calc_arg = <<>>
  /\ calc_ret = Zero
  /\ ViewsIdle
  /\ SimulationIdle

(***************************************************************************)
(* The loops of run_experiment (lines 465-487).                            *)
(***************************************************************************)
\* The inner loop goes on: the next browser, else the next website, else
\* the loops are over.
Continue ==
  IF b < Len(browsers) THEN /\ b' = b + 1
                            /\ w' = w
                            /\ pc' = "cell"
  ELSE IF w < Len(websites) THEN /\ w' = w + 1
                                 /\ b' = 1
                                 /\ pc' = "cell"
  ELSE /\ pc' = "summary"
       /\ UNCHANGED <<w, b>>

\* `break` (line 484) leaves the loop over the browsers only: the loop over
\* the websites goes on with the next website.
Break ==
  IF w < Len(websites) THEN /\ w' = w + 1
                            /\ b' = 1
                            /\ pc' = "cell"
  ELSE /\ pc' = "summary"
       /\ UNCHANGED <<w, b>>

\* except KeyboardInterrupt (lines 482-484).
ExceptKeyboardInterrupt ==
  /\ interrupted' = TRUE
  /\ Break

\* except Exception (lines 485-487); failed_so_far is the counter as the
\* try block left it.
ExceptException(failed_so_far) ==
  /\ failed_sessions' = failed_so_far + 1
  /\ Continue

(***************************************************************************)
(* run_single_session (lines 383-449) and the BrowserSession it drives.    *)
(***************************************************************************)
\* s.replace(old, new) on a token string, `old` a single token; new = <<>>
\* deletes the token.
RECURSIVE Replace(_, _, _)
Replace(str, old, new) ==
  IF str = <<>> THEN <<>>
  ELSE (IF Head(str) = old THEN new ELSE <<Head(str)>>)
       \o Replace(Tail(str), old, new)

\* f"{browser}_{website.replace('https://', '').replace('/', '_')}_{visit_number}"
SessionId(website, browser, visit) ==
  <<browser, "_">>
  \o Replace(Replace(website, "https://", <<>>), "/", <<"_">>)
  \o <<"_", VisitStr(visit)>>

\* Mutant of FailedResult: the failed result carries an empty entropies
\* map and no error text.
MutFailedResultWithEntropies(error) ==
  [session_id   |-> SessionId(websites[w], browsers[b], visit_number),
   website      |-> websites[w],
   browser      |-> browsers[b],
   visit_number |-> visit_number,
   timestamp    |-> clock,
   success      |-> FALSE,
   entropies    |-> EmptyDict]

\* The dict of lines 427-435 and 439-447.
FailedResult(error) ==
  [session_id   |-> SessionId(websites[w], browsers[b], visit_number),
   website      |-> websites[w],
   browser      |-> browsers[b],
   visit_number |-> visit_number,
   timestamp    |-> clock,
   success      |-> FALSE,
   error        |-> error]

\* The dict of lines 412-421.
SuccessResult(data, entropies) ==
  [session_id       |-> SessionId(websites[w], browsers[b], visit_number),
   website          |-> websites[w],
   browser          |-> browsers[b],
   visit_number     |-> visit_number,
   timestamp        |-> clock,
   fingerprint_data |-> data,
   entropies        |-> entropies,
   success          |-> TRUE]

\* Lines 404-435: the result run_single_session builds from what
\* visit_website returned.
BuildResult(data) ==
  IF Truthy(data)
  THEN SuccessResult(data,
         calculate_attribute_entropies(DictGet(data, "data", EmptyDict)))
  ELSE FailedResult("Failed to capture data")

\* A KeyboardInterrupt inside the try of run_single_session: no except
\* clause of visit_website or of run_single_session catches it, the finally
\* clause runs next.
RaiseKeyboardInterrupt ==
  /\ pending' = [kind |-> "KeyboardInterrupt", value |-> PyNone]
  /\ pc' = "close"

\* Mutant of VisitReturnsNone: a navigation that timed out is tried again.
MutVisitRetriesAfterTimeout(cause) ==
  IF cause = "timeout" /\ navigations < 3
  THEN /\ pc' = "navigate"
       /\ UNCHANGED <<fingerprint_data, cell_exc>>
  ELSE /\ fingerprint_data' = PyNone
       /\ cell_exc' = cause
       /\ pc' = "build"

\* The statement that follows a statement of visit_website (249-267); the
\* return statement of run_single_session follows the last one.
StepAfter(step) ==
  CASE step = "navigate" -> "inject"
    [] step = "inject" -> "simulate"
    [] step = "simulate" -> "settle"
    [] step = "settle" -> "get_data"
    [] step = "get_data" -> "get_stats"
    [] step = "get_stats" -> "build"

\* Mutant of VisitReturnsNone: the exception of a step is logged and the
\* visit goes on with the next step.
MutVisitGoesOnAfterError(cause) ==
  /\ cell_exc' = cause
  /\ pc' = StepAfter(pc)
  /\ UNCHANGED fingerprint_data

\* Mutant of VisitReturnsNone: the except clauses return the log that was
\* retrieved before the exception.
MutVisitReturnsLog(cause) ==
  /\ cell_exc' = cause
  /\ pc' = "build"
  /\ UNCHANGED fingerprint_data

\* visit_website returns None from one of its except clauses (269-277).
VisitReturnsNone(cause) ==
  /\ fingerprint_data' = PyNone
  /\ cell_exc' = cause
  /\ pc' = "build"

\* Lines 395-398: the session id, and BrowserSession(browser, 'detector.js'),
\* whose constructor reads the detector script.  The construction is not
\* inside the try of run_single_session: when it raises, the exception
\* reaches the except Exception clause of run_experiment.
Construct ==
  /\ pc = "cell"
  /\ attempted' = Append(attempted, <<w, b>>)
  /\ n_before' = Len(all_results)
  /\ navigations' = 0
  /\ fingerprint_data' = PyNone
  /\ pending' = NoPending
  /\ clock' = clock + 1
  /\ IF detector_readable
     THEN /\ session' = [browser_type |-> browsers[b], driver |-> 0]
          /\ cell_exc' = "none"
          /\ pc' = "start"
          /\ UNCHANGED <<w, b, failed_sessions>>
     ELSE /\ cell_exc' = "construct"
          /\ ExceptException(failed_sessions)
          /\ UNCHANGED session
  /\ UNCHANGED <<config, all_results, successful_sessions, results_dir,
                 result, open_browsers, interrupted, temp, analyzer,
                 calculator, views,
                 simulation>>

\* The except Exception clause of run_single_session (437-447).
SessionFailed(message) ==
  /\ pending' = [kind |-> "return", value |-> FailedResult(message)]
  /\ cell_exc' = "start"
  /\ pc' = "close"

\* The directories of the temporary directory: no line of the program
\* removes one.
TempDirs == Range(user_data_dirs)

\* int(time.time()) of line 174: a later second than the last reading when
\* a sleep has returned since, else that second or a later one.
Seconds == IF slept THEN {seconds + 1} ELSE {seconds, seconds + 1}

\* random.randint(1000, 9999) of line 174.  The values matter only by
\* being equal or not to the one of a directory of the same second: the
\* model draws a value a directory of this second has, or the least value
\* none of them has.
RandomSuffixes(now) ==
  LET used == { d.rand : d \in { e \in TempDirs : e.time = now } }
  IN used \cup { CHOOSE r \in 1000..9999 :
                   r \notin used /\ \A q \in 1000..(r - 1) : q \in used }

\* Line 174: chrome_selenium_<int(time.time())>_<os.getpid()>_<random>.
TempDirName(now, suffix) == [time |-> now, pid |-> "pid", rand |-> suffix]

\* Lines 174-176 of _start_chrome: the name of the user data directory and
\* os.makedirs(temp_dir, exist_ok=True), which accepts a directory that is
\* there already.
\* _start_firefox (217-232) names no profile directory and reads no clock.
MakeUserDataDir(temp_dir) ==
  IF session.browser_type = "chrome"
  THEN /\ user_data_dirs' =
            Append(user_data_dirs, temp_dir)
       /\ seconds' = temp_dir.time
       /\ slept' = FALSE
  ELSE UNCHANGED temp

\* session.start() (lines 129-232).  The browser process gets the number of
\* the cell as its id.  _start_chrome makes its directory (174-176), sets
\* self.driver (206) and then sends a CDP command (209) that may raise with
\* the browser already running.
Start ==
  /\ pc = "start"
  /\ LET pid == Len(attempted) IN
     IF session.browser_type \notin {"chrome", "firefox"}
     THEN \* ValueError (137)
          /\ SessionFailed("Unsupported browser type")
          /\ UNCHANGED <<session, open_browsers, temp>>
     ELSE \E now \in Seconds : \E suffix \in RandomSuffixes(now) :
             LET temp_dir == TempDirName(now, suffix) IN
             \/ \* the browser runs
                /\ MakeUserDataDir(temp_dir)
                /\ session' = [session EXCEPT !.driver = pid]
                /\ open_browsers' = open_browsers \cup {pid}
                /\ pc' = "navigate"
                /\ UNCHANGED <<pending, cell_exc>>
             \/ \* the driver could not start the browser
                /\ MakeUserDataDir(temp_dir)
                /\ SessionFailed("Message: session not created")
                /\ UNCHANGED <<session, open_browsers>>
             \/ \* the browser runs, the CDP command raises
                /\ session.browser_type = "chrome"
                /\ MakeUserDataDir(temp_dir)
                /\ session' = [session EXCEPT !.driver = pid]
                /\ open_browsers' = open_browsers \cup {pid}
                /\ SessionFailed("Message: session not created")
             \/ \* operator interrupt while the driver starts the browser
                /\ MakeUserDataDir(temp_dir)
                /\ RaiseKeyboardInterrupt
                /\ UNCHANGED <<session, open_browsers, cell_exc>>
  /\ UNCHANGED <<config, w, b, counters, results_dir, fingerprint_data,
                 result, clock, attempted, interrupted, n_before,
                 navigations, analyzer, calculator, views,
                 simulation>>

(***************************************************************************)
(* BrowserSession.visit_website (lines 234-277), one action per blocking   *)
(* call.  Every exception of class Exception makes it return None.         *)
(***************************************************************************)
visit_frame == <<config, w, b, counters, results_dir, session, result,
                 open_browsers, clock, attempted, interrupted, n_before,
                 seconds, user_data_dirs, analyzer, calculator, views,
                 simulation>>

\* Lines 249-250: set_page_load_timeout(30) and driver.get(url).
Navigate ==
  /\ pc = "navigate"
  /\ navigations' = navigations + 1
  /\ \/ \E load_time \in LoadTimes :
          IF load_time > PageLoadTimeout
          THEN /\ VisitReturnsNone("timeout")
               /\ UNCHANGED pending
          ELSE /\ pc' = "inject"
               /\ UNCHANGED <<fingerprint_data, pending, cell_exc>>
     \/ /\ VisitReturnsNone("visit")
        /\ UNCHANGED pending
     \/ /\ RaiseKeyboardInterrupt
        /\ UNCHANGED <<fingerprint_data, cell_exc>>
  /\ UNCHANGED <<visit_frame, slept>>

\* Line 253: execute_script(self.detector_script).
Inject ==
  /\ pc = "inject"
  /\ \/ /\ pc' = "simulate"
        /\ UNCHANGED <<fingerprint_data, pending, cell_exc>>
     \/ /\ VisitReturnsNone("visit")
        /\ UNCHANGED pending
     \/ /\ RaiseKeyboardInterrupt
        /\ UNCHANGED <<fingerprint_data, cell_exc>>
  /\ UNCHANGED <<visit_frame, navigations, slept>>

\* Line 256: _simulate_user_behavior(duration) (279-323), which catches the
\* exceptions of its actions itself.
Simulate ==
  /\ pc = "simulate"
  /\ \/ /\ pc' = "settle"
        /\ slept' = TRUE
        /\ UNCHANGED pending
     \/ /\ RaiseKeyboardInterrupt
        /\ UNCHANGED slept
  /\ UNCHANGED <<visit_frame, navigations, fingerprint_data, cell_exc>>

\* Line 259: time.sleep(2).
Settle ==
  /\ pc = "settle"
  /\ \/ /\ pc' = "get_data"
        /\ slept' = TRUE
        /\ UNCHANGED pending
     \/ /\ RaiseKeyboardInterrupt
        /\ UNCHANGED slept
  /\ UNCHANGED <<visit_frame, navigations, fingerprint_data, cell_exc>>

\* Line 262: fingerprint_data = execute_script("return window.getFingerprintData();").
GetData ==
  /\ pc = "get_data"
  /\ \/ \E v \in ProbeReturns :
          /\ fingerprint_data' = v
          /\ pc' = "get_stats"
          /\ UNCHANGED <<pending, cell_exc>>
     \/ /\ VisitReturnsNone("visit")
        /\ UNCHANGED pending
     \/ /\ RaiseKeyboardInterrupt
        /\ UNCHANGED <<fingerprint_data, cell_exc>>
  /\ UNCHANGED <<visit_frame, navigations, slept>>

\* Lines 263-267: stats = execute_script(...); stats.get('total', 0) in the
\* log message; return fingerprint_data.  stats.get raises AttributeError
\* when stats is None.
GetStats ==
  /\ pc = "get_stats"
  /\ \/ \E stats \in ProbeStats :
          IF stats # PyNone
          THEN /\ pc' = "build"
               /\ UNCHANGED <<fingerprint_data, pending, cell_exc>>
          ELSE /\ VisitReturnsNone("stats")
               /\ UNCHANGED pending
     \/ /\ VisitReturnsNone("stats")
        /\ UNCHANGED pending
     \/ /\ RaiseKeyboardInterrupt
        /\ UNCHANGED <<fingerprint_data, cell_exc>>
  /\ UNCHANGED <<visit_frame, navigations, slept>>

\* Lines 404-435: the return statement of run_single_session; the return
\* value waits for the finally clause.
Build ==
  /\ pc = "build"
  /\ pending' = [kind |-> "return", value |-> BuildResult(fingerprint_data)]
  /\ pc' = "close"
  /\ UNCHANGED <<visit_frame, navigations, fingerprint_data, cell_exc,
                 slept>>

\* Mutant of close: the driver is never quit.
MutCloseWithoutQuit(sess, running) == running

\* BrowserSession.close (325-332), the processes it leaves running: it
\* quits the driver when there is one.  An exception of quit is logged and
\* not raised, and the driver's quit ends the browser process whether or
\* not it raises.
close(sess, running) ==
  IF sess.driver # 0 THEN running \ {sess.driver} ELSE running

\* Mutant of Close: session.close() follows the try statement instead of
\* being its finally clause, so an operator interrupt skips it.
MutCloseOnlyOnReturn ==
  /\ pc = "close"
  /\ IF pending.kind = "return"
     THEN /\ open_browsers' = close(session, open_browsers)
          /\ result' = pending.value
          /\ pc' = "record"
          /\ UNCHANGED <<w, b, interrupted>>
     ELSE /\ ExceptKeyboardInterrupt
          /\ UNCHANGED <<result, open_browsers>>
  /\ pending' = NoPending
  /\ UNCHANGED <<config, counters, results_dir, session, fingerprint_data,
                 clock, attempted, cell_exc, n_before, navigations, temp,
                 analyzer, calculator, views,
                 simulation>>

\* The finally clause (448-449), then the way out of run_single_session:
\* the result goes to run_experiment, a KeyboardInterrupt to its except
\* clause (482-484).
Close ==
  /\ pc = "close"
  /\ open_browsers' = close(session, open_browsers)
  /\ IF pending.kind = "return"
     THEN /\ result' = pending.value
          /\ pc' = "record"
          /\ UNCHANGED <<w, b, interrupted>>
     ELSE /\ ExceptKeyboardInterrupt
          /\ UNCHANGED result
  /\ pending' = NoPending
  /\ UNCHANGED <<config, counters, results_dir, session, fingerprint_data,
                 clock, attempted, cell_exc, n_before, navigations, temp,
                 analyzer, calculator, views,
                 simulation>>

(***************************************************************************)
(* The results directory.                                                  *)
(***************************************************************************)
\* open(filepath, 'w') raises OSError when the name holds a character the
\* file system rejects.
ValidFileName(name) ==
  \A i \in DOMAIN name.stem : name.stem[i] \notin InvalidFileNameChars

\* open(path, 'w') and json.dump: a file of that name is replaced.
WriteFile(dir, name, content) ==
  {f \in dir : f.name # name} \cup {[name |-> name, content |-> content]}

\* Line 496: f"{session_id}_{timestamp.replace(':', '-')}.json"
ResultFileName(r) ==
  [stem |-> r.session_id, ts |-> r.timestamp, ext |-> "json"]

\* Line 543: f"experiment_report_visit{visit_number}_{now}.json"
ReportFileName(visit, now) ==
  [stem |-> <<"experiment_report_visit", VisitStr(visit)>>, ts |-> now,
   ext |-> "json"]

IsReportFile(f) == Head(f.name.stem) = "experiment_report_visit"

SessionFiles ==
  {f \in results_dir : f.name.ext = "json" /\ ~IsReportFile(f)}

ReportFiles == {f \in results_dir : IsReportFile(f)}

\* _save_result (494-500), the directory it leaves.
SaveResult(dir, r) == WriteFile(dir, ResultFileName(r), r)

(***************************************************************************)
(* _generate_summary_report (502-549).                                     *)
(***************************************************************************)
RECURSIVE SelectSuccessful(_)
SelectSuccessful(results) ==
  IF results = <<>> THEN <<>>
  ELSE (IF Head(results).success THEN <<Head(results)>> ELSE <<>>)
       \o SelectSuccessful(Tail(results))

\* sum(values): the floats are added from the left.
RECURSIVE SumSeq(_)
SumSeq(s) ==
  IF s = <<>> THEN Zero
  ELSE FloatAdd(SumSeq(SubSeq(s, 1, Len(s) - 1)), Last(s))

\* [e.get(category, 0) for e in all_entropies if category in e]
RECURSIVE CategoryValues(_, _)
CategoryValues(all_entropies, category) ==
  IF all_entropies = <<>> THEN <<>>
  ELSE (IF category \in DOMAIN Head(all_entropies)
        THEN <<Head(all_entropies)[category]>> ELSE <<>>)
       \o CategoryValues(Tail(all_entropies), category)

\* Lines 530-538: the categories are those of the first successful result.
AverageEntropies(results) ==
  LET successful == SelectSuccessful(results)
      all_entropies == [i \in DOMAIN successful |->
                          DictGet(successful[i], "entropies", EmptyDict)]
      categories == DOMAIN all_entropies[1]
  IN [category \in categories |->
        LET values == CategoryValues(all_entropies, category)
        IN FloatDiv(SumSeq(values), Len(values))]

\* Lines 517-526.
ResultsSummary(results) ==
  LET successful == SelectSuccessful(results)
  IN [i \in DOMAIN successful |->
        [website         |-> successful[i].website,
         browser         |-> successful[i].browser,
         total_api_calls |-> DictGet(DictGet(successful[i], "fingerprint_data",
                                             EmptyDict), "data", EmptyDict),
         entropies       |-> DictGet(successful[i], "entropies", EmptyDict),
         timestamp       |-> successful[i].timestamp]]

SummaryReport(results, visit, now) ==
  LET n_success == Len(SelectSuccessful(results))
      report == [experiment_timestamp |-> now,
                 visit_number         |-> visit,
                 total_sessions       |-> Len(results),
                 successful_sessions  |-> n_success,
                 failed_sessions      |-> Len(results) - n_success,
                 browsers_tested      |-> browsers,
                 websites_count       |-> Len(websites),
                 session_duration     |-> session_duration,
                 results_summary      |-> ResultsSummary(results)]
  IN IF n_success > 0
     THEN report @@ [average_entropies |-> AverageEntropies(results)]
     ELSE report

(***************************************************************************)
(* run_experiment after run_single_session has returned (469-480), and     *)
(* the end of the run (489-492).                                           *)
(***************************************************************************)
\* Lines 469-477: append the result, count it, save it.  An OSError of
\* _save_result reaches the except Exception clause, which skips the pause.
Record ==
  /\ pc = "record"
  /\ all_results' = Append(all_results, result)
  /\ successful_sessions' =
       IF result.success THEN successful_sessions + 1 ELSE successful_sessions
  /\ LET failed == IF result.success THEN failed_sessions
                                     ELSE failed_sessions + 1
     IN IF ValidFileName(ResultFileName(result))
        THEN /\ results_dir' = SaveResult(results_dir, result)
             /\ failed_sessions' = failed
             /\ pc' = "pause"
             /\ UNCHANGED <<w, b, cell_exc>>
        ELSE /\ cell_exc' = "save"
             /\ ExceptException(failed)
             /\ UNCHANGED results_dir
  /\ UNCHANGED <<config, locals, open_browsers, clock, attempted,
                 interrupted, n_before, navigations, temp, analyzer,
                 calculator, views,
                 simulation>>

\* Line 480: time.sleep(random.uniform(2, 5)), where an operator interrupt
\* may arrive.
Pause ==
  /\ pc = "pause"
  /\ \/ /\ Continue
        /\ slept' = TRUE
        /\ UNCHANGED interrupted
     \/ /\ ExceptKeyboardInterrupt
        /\ UNCHANGED slept
  /\ UNCHANGED <<config, counters, results_dir, locals, open_browsers, clock,
                 attempted, cell_exc, n_before, navigations, seconds,
                 user_data_dirs, analyzer, calculator, views,
                 simulation>>

\* Line 490: _generate_summary_report(all_results, visit_number).
Summary ==
  /\ pc = "summary"
  /\ results_dir' = WriteFile(results_dir,
                              ReportFileName(visit_number, clock),
                              SummaryReport(all_results, visit_number, clock))
  /\ clock' = clock + 1
  /\ pc' = "done"
  /\ UNCHANGED <<config, w, b, counters, locals, open_browsers, attempted,
                 interrupted, cell_exc, n_before, navigations, temp,
                 analyzer, calculator, views,
                 simulation>>

(***************************************************************************)
(* ResultsAnalyzer (analyze_results.py), run on the results directory once *)
(* the experiment is over: the constructor loads the corpus, then          *)
(* generate_complete_report prints its views and exports the CSV summary.  *)
(***************************************************************************)
run == <<config, pc, w, b, counters, results_dir, locals, open_browsers,
         clock, attempted, interrupted, cell_exc, n_before, navigations,
         temp>>

\* The tokens of a file name in the order of their characters.
TokenOrder ==
  <<"1", "2", "_", "a.com", "b.org", "c.net", "chrome", "d.de",
    "experiment_report_visit", "firefox", "q", "reports.org", "results_summary",
    "search">>

TokenRank(t) == CHOOSE k \in DOMAIN TokenOrder : TokenOrder[k] = t

RECURSIVE StemLess(_, _)
StemLess(x, y) ==
  IF y = <<>> THEN FALSE
  ELSE IF x = <<>> THEN TRUE
  ELSE IF Head(x) # Head(y) THEN TokenRank(Head(x)) < TokenRank(Head(y))
  ELSE StemLess(Tail(x), Tail(y))

NameLess(m, n) == StemLess(m.stem, n.stem) \/ (m.stem = n.stem /\ m.ts < n.ts)

\* self.results_dir.glob('*.json') (line 29): the files of that extension,
\* in the order of the directory, which the program's file system keeps by
\* name.
RECURSIVE Glob(_)
Glob(files) ==
  IF files = {} THEN <<>>
  ELSE LET first == CHOOSE f \in files :
                      \A g \in files \ {f} : NameLess(f.name, g.name)
       IN <<first>> \o Glob(files \ {first})

\* The tokens that hold the substring 'report'.
ReportTokens == {"experiment_report_visit", ReportHost}

\* 'report' in file.name (line 31)
ContainsReport(name) == \E i \in DOMAIN name.stem : name.stem[i] \in ReportTokens

\* _load_results (21-41).
RECURSIVE LoadFiles(_)
LoadFiles(files) ==
  IF files = <<>> THEN <<>>
  ELSE (IF ContainsReport(Head(files).name) THEN <<>>
        ELSE <<Head(files).content>>)
       \o LoadFiles(Tail(files))

load_results(dir) == LoadFiles(Glob({f \in dir : f.name.ext = "json"}))

\* ResultsAnalyzer() (17-19); generate_complete_report returns when no
\* result was found (338-341).
Load ==
  /\ pc = "done"
  /\ analyzer_results' = load_results(results_dir)
  /\ pc' = IF analyzer_results' = <<>> THEN "analyzed" ELSE "top_sites"
  /\ UNCHANGED <<config, w, b, counters, results_dir, locals, open_browsers,
                 clock, attempted, interrupted, cell_exc, n_before,
                 navigations, temp, top_sites, calculator, views,
                 simulation>>

\* [r for r in self.results if r.get('success') and 'entropies' in r]
RECURSIVE WithEntropies(_)
WithEntropies(rs) ==
  IF rs = <<>> THEN <<>>
  ELSE (IF Head(rs).success /\ "entropies" \in DOMAIN Head(rs)
        THEN <<Head(rs)>> ELSE <<>>)
       \o WithEntropies(Tail(rs))

\* key=lambda x: x['entropies'].get('total', 0)
TotalOf(r) == DictGet(r.entropies, TotalKey, Zero)

\* Mutant of InsertByTotal: the result goes before the results of the same
\* total.
RECURSIVE MutInsertBeforeEqualTotals(_, _)
MutInsertBeforeEqualTotals(sorted, r) ==
  IF sorted = <<>> THEN <<r>>
  ELSE IF FloatLess(TotalOf(Head(sorted)), TotalOf(r))
          \/ TotalOf(Head(sorted)) = TotalOf(r)
       THEN <<r>> \o sorted
       ELSE <<Head(sorted)>> \o MutInsertBeforeEqualTotals(Tail(sorted), r)

\* One step of sorted(..., reverse=True): r goes behind every result whose
\* total is not lower than its own, the sort being stable.
RECURSIVE InsertByTotal(_, _)
InsertByTotal(sorted, r) ==
  IF sorted = <<>> THEN <<r>>
  ELSE IF FloatLess(TotalOf(Head(sorted)), TotalOf(r))
       THEN <<r>> \o sorted
       ELSE <<Head(sorted)>> \o InsertByTotal(Tail(sorted), r)

\* sorted(successful, key=..., reverse=True) (131-135)
RECURSIVE SortByTotal(_)
SortByTotal(rs) ==
  IF rs = <<>> THEN <<>>
  ELSE InsertByTotal(SortByTotal(SubSeq(rs, 1, Len(rs) - 1)), Last(rs))

\* The rows print_top_fingerprinting_sites prints (124-144): the first
\* top_n of the sorted results.  The websites of the model are shorter than
\* the 45 characters from which a row abbreviates them.
TopRows(rs, top_n) ==
  LET sorted_results == SortByTotal(WithEntropies(rs))
      n == IF Len(sorted_results) < top_n THEN Len(sorted_results) ELSE top_n
  IN [i \in 1..n |-> [website |-> sorted_results[i].website,
                       entropy |-> TotalOf(sorted_results[i]),
                       browser |-> sorted_results[i].browser]]

\* print_top_fingerprinting_sites(top_n) (118-144).
TopSites ==
  /\ pc = "top_sites"
  /\ \E top_n \in TopNs :
       top_sites' = [top_n |-> top_n, listed |-> TopRows(analyzer_results, top_n)]
  /\ pc' = "export"
  /\ UNCHANGED <<config, w, b, counters, results_dir, locals, open_browsers,
                 clock, attempted, interrupted, cell_exc, n_before,
                 navigations, temp, analyzer_results, calculator, views,
                 simulation>>

\* The file export_csv_summary writes (294).
CsvFileName == [stem |-> <<"results_summary">>, ts |-> 0, ext |-> "csv"]

\* The rows of the CSV file (313-326), one per successful result.
CsvRows(rs) ==
  LET successful == SelectSuccessful(rs)
  IN [i \in DOMAIN successful |->
        LET r == successful[i]
            entropies == DictGet(r, "entropies", EmptyDict)
        IN <<r.website, r.browser, r.visit_number, r.timestamp,
             DictGet(entropies, "total", Zero),
             DictGet(entropies, "canvas", Zero),
             DictGet(entropies, "webgl", Zero),
             DictGet(entropies, "audio", Zero),
             DictGet(entropies, "navigator", Zero),
             r.success>>]

\* Mutant of ExportCsvSummary: the summary is written over the first file
\* of the directory.
MutExportOverFirstFile(dir, rs) ==
  IF SelectSuccessful(rs) = <<>> \/ dir = {} THEN dir
  ELSE WriteFile(dir, Glob(dir)[1].name, CsvRows(rs))

\* export_csv_summary (290-328), the directory it leaves: nothing is
\* written without a successful result.
ExportCsvSummary(dir, rs) ==
  IF SelectSuccessful(rs) = <<>> THEN dir
  ELSE WriteFile(dir, CsvFileName, CsvRows(rs))

ExportCsv ==
  /\ pc = "export"
  /\ results_dir' = ExportCsvSummary(results_dir, analyzer_results)
  /\ pc' = "analyzed"
  /\ UNCHANGED <<config, w, b, counters, locals, open_browsers, clock,
                 attempted, interrupted, cell_exc, n_before, navigations,
                 temp, analyzer, calculator, views,
                 simulation>>

(***************************************************************************)
(* The views of the ResultsAnalyzer printed on their own: InitViews draws  *)
(* the corpus that load_results has read, the actions print one view.     *)
(***************************************************************************)
\* The results a corpus may hold.
MaxSessions == 3

\* Totals of a persisted result, as floats.
Totals ==
  { Zero,                               \* 0.0
    <<204, 819, 204, 819, 204, 19>>,    \* 0.3
    <<0, 0, 0, 0, 0, 32>>,              \* 0.5
    <<208, 819, 204, 819, 204, 51>>,    \* 0.8
    <<0, 0, 0, 0, 0, 64>>,              \* 1.0
    <<0, 0, 0, 0, 0, 96>>,              \* 1.5
    <<0, 0, 0, 0, 0, 128>>,             \* 2.0
    <<0, 0, 0, 0, 0, 192>> }            \* 3.0

\* The fields of a persisted result the views read.
StoredSuccess(website, visit, total) ==
  [website |-> website, visit_number |-> visit, success |-> TRUE,
   entropies |-> [total |-> total]]

StoredFailure(website, visit) ==
  [website |-> website, visit_number |-> visit, success |-> FALSE,
   error |-> "Failed to capture data"]

ListsOver(S) == UNION { [1..n -> S] : n \in 0..MaxSessions }

\* Corpora of one site visited once and again.
TemporalCorpora ==
  ListsOver({ StoredSuccess(Website(1, FALSE), v, t) : v \in {1, 2}, t \in Totals }
            \cup { StoredFailure(Website(1, FALSE), v) : v \in {1, 2} })

\* Sites of several top-level domains; two of them have a host whose name
\* holds a suffix of another region.
GeoSites ==
  { Website(i, FALSE) : i \in 1..Len(Hosts) }
  \cup { <<"https://", "www.baidu.cn">>,
         <<"https://", "www.instagram.com">>,
         <<"https://", "www.delta.com">> }

GeoCorpora ==
  ListsOver({ StoredSuccess(site, 1, t) :
                site \in GeoSites,
                t \in { <<0, 0, 0, 0, 0, 64>>, <<0, 0, 0, 0, 0, 192>> } }
            \cup { StoredFailure(site, 1) : site \in GeoSites })

InitViews ==
  /\ websites = [i \in 1..MaxWebsites |-> Website(i, FALSE)]
  /\ visit_number = 1
  /\ detector_readable = TRUE
  /\ pc = "loaded"
  /\ w = 1
  /\ b = 1
  /\ all_results = <<>>
  /\ successful_sessions = 0
  /\ failed_sessions = 0
  /\ results_dir = {}
  /\ session = NoSession
  /\ fingerprint_data = PyNone
  /\ pending = NoPending
  /\ result = PyNone
  /\ open_browsers = {}
  /\ clock = 1
  /\ attempted = <<>>
  /\ interrupted = FALSE
  /\ cell_exc = "none"
  /\ n_before = 0
  /\ navigations = 0
  /\ seconds = 0
  /\ slept = TRUE
  /\ user_data_dirs = <<>>
  /\ top_sites = NoTopSites
  /\ calc_pc = "idle"
  /\ calc_arg = <<>>
  /\ calc_ret = Zero
  /\ SimulationIdle
  /\ view = NoView
  /\ \/ view_pc = "temporal" /\ analyzer_results \in TemporalCorpora
     \/ view_pc = "geographic" /\ analyzer_results \in GeoCorpora

\* by_visit[visit] (lines 224-226), for the successful results rs.
RECURSIVE TotalsOfVisit(_, _)
TotalsOfVisit(rs, visit) ==
  IF rs = <<>> THEN <<>>
  ELSE (IF Head(rs).visit_number = visit THEN <<TotalOf(Head(rs))>> ELSE <<>>)
       \o TotalsOfVisit(Tail(rs), visit)

\* The literals of lines 240 and 242.
HighBelow == <<0, 0, 0, 0, 0, 32>>      \* 0.5
MediumBelow == <<0, 0, 0, 0, 0, 128>>   \* 2

\* The thresholds taken as inclusive.
MutStabilityInclusive(abs_diff) ==
  IF ~FloatLess(HighBelow, abs_diff) THEN "ELEVEE"
  ELSE IF ~FloatLess(MediumBelow, abs_diff) THEN "MOYENNE"
  ELSE "FAIBLE"

\* Lines 240-245, on abs(diff).
Stability(abs_diff) ==
  IF FloatLess(abs_diff, HighBelow) THEN "ELEVEE"
  ELSE IF FloatLess(abs_diff, MediumBelow) THEN "MOYENNE"
  ELSE "FAIBLE"

\* What print_temporal_analysis prints of the corpus rs: the sessions of
\* the two visits and the stability, or that the data are insufficient.
temporal_analysis(rs) ==
  LET successful == WithEntropies(rs)
      visit1 == TotalsOfVisit(successful, 1)
      visit2 == TotalsOfVisit(successful, 2)
  IN IF visit1 # <<>> /\ visit2 # <<>>
     THEN LET visit1_avg == FloatDiv(SumSeq(visit1), Len(visit1))
              visit2_avg == FloatDiv(SumSeq(visit2), Len(visit2))
          IN [printed |-> "temporal",
              sessions |-> <<Len(visit1), Len(visit2)>>,
              stability |-> Stability(FloatAbsDiff(visit2_avg, visit1_avg))]
     ELSE [printed |-> "Donnees insuffisantes"]

PrintTemporalAnalysis ==
  /\ view_pc = "temporal"
  /\ view' = temporal_analysis(analyzer_results)
  /\ view_pc' = "temporal_printed"
  /\ UNCHANGED <<run, analyzer, calculator, simulation>>

\* The lists of lines 257-258.
europe_domains == {".de", ".fr", ".uk", ".es", ".it", ".nl", ".be", ".ch", ".at"}
asia_domains == {".cn", ".jp", ".kr", ".in", ".sg"}

\* The string a website is.
RECURSIVE Text(_)
Text(tokens) ==
  IF tokens = <<>> THEN "" ELSE Head(tokens) \o Text(Tail(tokens))

\* sub in text
Contains(sub, text) ==
  \E i \in 1..(Len(text) - Len(sub) + 1) :
    SubSeq(text, i, i + Len(sub) - 1) = sub

\* The chain of lines 273-280.
RegionOf(website) ==
  LET text == Text(website)
  IN IF \E domain \in europe_domains : Contains(domain, text) THEN "Europe"
     ELSE IF \E domain \in asia_domains : Contains(domain, text) THEN "Asie"
     ELSE IF Contains(".com", text) \/ Contains(".org", text)
          THEN "Amerique du Nord"
     ELSE "Autre"

RegionNames == {"Europe", "Amerique du Nord", "Asie", "Autre"}

\* regions[region] after the loop of lines 269-280 over the successful
\* results rs.
RECURSIVE RegionEntropies(_, _)
RegionEntropies(rs, region) ==
  IF rs = <<>> THEN <<>>
  ELSE (IF RegionOf(Head(rs).website) = region
        THEN <<TotalOf(Head(rs))>> ELSE <<>>)
       \o RegionEntropies(Tail(rs), region)

\* What print_geographic_analysis prints of the corpus rs: for every
\* region that has sessions, their number and their mean total.
geographic_analysis(rs) ==
  LET successful == WithEntropies(rs)
      regions == [region \in RegionNames |->
                    RegionEntropies(successful, region)]
      shown == {region \in RegionNames : regions[region] # <<>>}
  IN [printed |-> "geographic",
      rows |-> [region \in shown |->
                  [sites |-> Len(regions[region]),
                   avg |-> FloatDiv(SumSeq(regions[region]),
                                    Len(regions[region]))]]]

PrintGeographicAnalysis ==
  /\ view_pc = "geographic"
  /\ view' = geographic_analysis(analyzer_results)
  /\ view_pc' = "geographic_printed"
  /\ UNCHANGED <<run, analyzer, calculator, simulation>>

NextViews ==
  \/ PrintTemporalAnalysis
  \/ PrintGeographicAnalysis

SpecViews == InitViews /\ [][NextViews]_vars

(***************************************************************************)
(* _simulate_user_behavior followed statement by statement (lines          *)
(* 279-323).  Time is counted in tenths of a second; time.sleep(x) returns *)
(* after x at least, and a call of the driver returns or raises an         *)
(* Exception after some time.                                              *)
(***************************************************************************)
\* The longest duration the loop is called with, tenths of a second.
MaxDuration == 30

\* random.uniform(0.5, 2), random.uniform(0.3, 1), random.uniform(1, 3):
\* the two ends of each interval.
SleepsAfter(chosen) ==
  CASE chosen = "scroll" -> {5, 20}
    [] chosen = "mouse_move" -> {3, 10}
    [] chosen = "wait" -> {10, 30}

\* How long driver.execute_script may take.
ScriptTimes == {0, 1}

InitSimulate ==
  /\ websites = [i \in 1..MaxWebsites |-> Website(i, FALSE)]
  /\ visit_number = 1
  /\ detector_readable = TRUE
  /\ BeforeRun
  /\ calc_pc = "idle"
  /\ calc_arg = <<>>
  /\ calc_ret = Zero
  /\ ViewsIdle
  /\ sim_pc = "start"
  /\ time_now \in {0, 1}
  /\ start_time = 0
  /\ duration \in 0..MaxDuration
  /\ action = "none"
  /\ actions_performed = 0
  /\ error_logged = FALSE

simulate_frame == <<run, analyzer, calculator, views>>

\* Lines 286-287.
SimStart ==
  /\ sim_pc = "start"
  /\ start_time' = time_now
  /\ actions_performed' = 0
  /\ sim_pc' = "while"
  /\ UNCHANGED <<time_now, duration, action, error_logged, simulate_frame>>

\* Line 289, and line 323 when the test fails.
SimWhile ==
  /\ sim_pc = "while"
  /\ sim_pc' = IF time_now - start_time < duration THEN "choose"
               ELSE "returned"
  /\ UNCHANGED <<time_now, start_time, duration, action, actions_performed,
                 error_logged, simulate_frame>>

\* Lines 292-294, 300, 314.
SimChoose ==
  /\ sim_pc = "choose"
  /\ action' \in {"scroll", "mouse_move", "wait"}
  /\ sim_pc' = IF action' = "wait" THEN "sleep" ELSE "script"
  /\ UNCHANGED <<time_now, start_time, duration, actions_performed,
                 error_logged, simulate_frame>>

\* Lines 297 and 302-311: the script runs, or the driver raises.
SimScript ==
  /\ sim_pc = "script"
  /\ \E taken \in ScriptTimes : time_now' = time_now + taken
  /\ sim_pc' \in {"sleep", "except"}
  /\ UNCHANGED <<start_time, duration, action, actions_performed,
                 error_logged, simulate_frame>>

\* Lines 298, 312, 315 and 317.
SimSleep ==
  /\ sim_pc = "sleep"
  /\ \E slept_for \in SleepsAfter(action) : time_now' = time_now + slept_for
  /\ actions_performed' = actions_performed + 1
  /\ sim_pc' = "while"
  /\ UNCHANGED <<start_time, duration, action, error_logged, simulate_frame>>

\* A handler that goes back to the test at once.
MutExceptWithoutSleep ==
  /\ sim_pc = "except"
  /\ sim_pc' = "while"
  /\ error_logged' = TRUE
  /\ UNCHANGED <<time_now, start_time, duration, action, actions_performed,
                 simulate_frame>>

\* A handler that lets the exception out of the loop.
MutExceptPropagates ==
  /\ sim_pc = "except"
  /\ sim_pc' = "raised"
  /\ UNCHANGED <<time_now, start_time, duration, action, actions_performed,
                 error_logged, simulate_frame>>

\* Lines 319-321: time.sleep(1).
SimExcept ==
  /\ sim_pc = "except"
  /\ error_logged' = TRUE
  /\ time_now' = time_now + 10
  /\ sim_pc' = "while"
  /\ UNCHANGED <<start_time, duration, action, actions_performed,
                 simulate_frame>>

NextSimulate ==
  \/ SimStart
  \/ SimWhile
  \/ SimChoose
  \/ SimScript
  \/ SimSleep
  \/ SimExcept

\* The method runs on one thread that is never suspended for good: a
\* statement that can be executed is executed.
SpecSimulate == InitSimulate /\ [][NextSimulate]_vars /\ WF_vars(NextSimulate)

(***************************************************************************)
(* The EntropyCalculator called on its own: InitCalculator draws the       *)
(* argument, the actions apply the two static methods.                     *)
(***************************************************************************)
InitCalculator ==
  /\ websites = [i \in 1..MaxWebsites |-> Website(i, FALSE)]
  /\ visit_number = 1
  /\ detector_readable = TRUE
  /\ BeforeRun
  /\ ViewsIdle
  /\ SimulationIdle
  /\ calc_ret = Zero
  /\ \/ calc_pc = "shannon" /\ calc_arg \in ValueLists \cup {ElevenDistinct}
     \/ calc_pc = "attribute" /\ calc_arg \in Logs

ShannonEntropy ==
  /\ calc_pc = "shannon"
  /\ calc_ret' = calculate_shannon_entropy(calc_arg)
  /\ calc_pc' = "shannon_returned"
  /\ UNCHANGED <<calc_arg, run, analyzer, views, simulation>>

AttributeEntropies ==
  /\ calc_pc = "attribute"
  /\ calc_ret' = calculate_attribute_entropies(calc_arg)
  /\ calc_pc' = "attribute_returned"
  /\ UNCHANGED <<calc_arg, run, analyzer, views, simulation>>

NextCalculator ==
  \/ ShannonEntropy
  \/ AttributeEntropies

SpecCalculator == InitCalculator /\ [][NextCalculator]_vars

Next ==
  \/ Construct
  \/ Start
  \/ Navigate
  \/ Inject
  \/ Simulate
  \/ Settle
  \/ GetData
  \/ GetStats
  \/ Build
  \/ Close
  \/ Record
  \/ Pause
  \/ Summary
  \/ Load
  \/ TopSites
  \/ ExportCsv

Spec == Init /\ [][Next]_vars

(***************************************************************************)
(* Properties.                                                             *)
(***************************************************************************)
NumCells == Len(websites) * Len(browsers)

\* No run_single_session is in flight.
BetweenCells == pc \in {"cell", "summary", "done"}

OutsideSession == pc \in {"cell", "record", "pause", "summary", "done"}

Persisted(r) == \E f \in SessionFiles : f.content = r

\* The results run_single_session has returned so far.
ProducedResults ==
  Range(all_results) \cup (IF pc = "record" THEN {result} ELSE {})

NoCalls(log) == \A category \in DOMAIN log : log[category] = <<>>

\* C1: an exception raised while a cell is processed (construction of the
\* session, launch, navigation or probe error, saving) leaves a failed
\* result of that cell in all_results and in the results directory, and a
\* run that is not interrupted attempts every cell of the matrix.
C1_CellExceptionBecomesFailedResult ==
  /\ (BetweenCells /\ cell_exc # "none") =>
       /\ Len(all_results) = n_before + 1
       /\ ~Last(all_results).success
       /\ Persisted(Last(all_results))
  /\ (pc = "done" /\ ~interrupted) => Len(attempted) = NumCells

\* C2: a run that is not interrupted leaves W*B session files and one
\* summary report, whose total_sessions is W*B.
C2_OneRecordPerCellAndOneReport ==
  (pc = "done" /\ ~interrupted) =>
    /\ Cardinality(SessionFiles) = NumCells
    /\ Cardinality(ReportFiles) = 1
    /\ \A f \in ReportFiles : f.content.total_sessions = NumCells

\* C3: once an operator interrupt has been caught, the browser of the
\* session it hit is closed, and no cell is started any more.
C3_InterruptEndsTheRun ==
  /\ [](interrupted => open_browsers = {})
  /\ [][interrupted => attempted' = attempted]_vars

\* C4: when a cell starts, the result of every earlier completed cell is
\* in the results directory.
C4_ResultsPersistedBeforeNextCell ==
  pc = "cell" => \A i \in DOMAIN all_results : Persisted(all_results[i])

\* C5: a finished run has written a summary report, and when no session of
\* an uninterrupted run succeeded the report shows 0 successful sessions
\* and as many failed sessions as cells were attempted.
C5_ReportCountsEveryFailedCell ==
  pc = "done" =>
    /\ ReportFiles # {}
    /\ (successful_sessions = 0 /\ ~interrupted) =>
         \A f \in ReportFiles :
           /\ f.content.successful_sessions = 0
           /\ f.content.failed_sessions = Len(attempted)

\* C6: whenever run_single_session is not in flight (it has returned a
\* result, or it was left by an operator interrupt), no browser process is
\* running: close() has ended the browser of every session that launched
\* one, on every way out.
C6_NoBrowserOpenOutsideSession ==
  OutsideSession => open_browsers = {}

\* C6 witness: a session that launched its browser was left by an operator
\* interrupt (no result came back) and its browser is closed.
C6_Witness_InterruptedSessionClosed ==
  /\ pc = "cell"
  /\ interrupted
  /\ session.driver = Len(attempted)
  /\ Len(all_results) = n_before
  /\ open_browsers = {}

\* C7: a result with success = false has no fingerprint_data key, no
\* entropies key, and a non-empty error description.
C7_FailedResultShape ==
  \A r \in ProducedResults :
    ~r.success =>
      /\ "fingerprint_data" \notin DOMAIN r
      /\ "entropies" \notin DOMAIN r
      /\ "error" \in DOMAIN r
      /\ r.error # ""

\* C7 witness: failed results of both kinds have been produced, one for a
\* visit that returned nothing and one for an exception of the launch.
C7_Witness_BothFailedKinds ==
  /\ \E r \in ProducedResults :
       ~r.success /\ r.error = "Failed to capture data"
  /\ \E r \in ProducedResults :
       ~r.success /\ r.error # "Failed to capture data"

C9_NavigationTimeoutFailsWithoutRetry ==
  /\ navigations <= 1
  /\ (pc = "record" /\ cell_exc = "timeout") =>
       /\ ~result.success
       /\ "entropies" \notin DOMAIN result
       /\ "error" \in DOMAIN result
       /\ result.error # ""

\* C9 witness: the result of a session whose navigation timed out.
C9_Witness_TimedOutSession ==
  pc = "record" /\ cell_exc = "timeout" /\ navigations = 1

\* C10: at most one browser process runs at any time, and none runs when a
\* session is about to launch its own.
C10_OneBrowserAtATime ==
  /\ Cardinality(open_browsers) <= 1
  /\ pc = "start" => open_browsers = {}

\* C10 witness: the browser of a later cell runs, alone, after the session
\* of the cell before it ran a browser and returned a successful result.
C10_Witness_SecondBrowser ==
  /\ pc = "navigate"
  /\ Len(attempted) >= 2
  /\ open_browsers = {Len(attempted)}
  /\ all_results # <<>>
  /\ Last(all_results).success

\* A cell comes before another in website-major, browser-minor order.
CellBefore(c, d) == c[1] < d[1] \/ (c[1] = d[1] /\ c[2] < d[2])

\* C11: the cells are attempted in website-major, browser-minor order, each
\* at most once, and when a cell of a website is attempted every browser of
\* the website before it has been attempted.
C11_WebsiteMajorBrowserMinorOrder ==
  /\ \A i, j \in DOMAIN attempted :
       i < j => CellBefore(attempted[i], attempted[j])
  /\ \A k \in DOMAIN attempted :
       attempted[k][1] > 1 =>
         \A j \in DOMAIN browsers :
           \E m \in 1..(k - 1) : attempted[m] = <<attempted[k][1] - 1, j>>

\* C12: no two sessions are given the same profile directory: the
\* directories _start_chrome has made are all different.
C12_FreshProfilePerSession ==
  \A i, j \in DOMAIN user_data_dirs :
    i # j => user_data_dirs[i] # user_data_dirs[j]

\* C13: once close() has returned no profile directory of a session is
\* left in the temporary directory.
C13_CloseRemovesProfileDirectory ==
  OutsideSession => TempDirs = {}

\* The files a finished analysis has left.
CsvFiles == {f \in results_dir : f.name.ext = "csv"}

\* C14: no step of the run or of the analyzer changes or removes a session
\* file that is in the results directory, and after the analyzer has
\* printed its views and exported the CSV summary, loading the directory
\* again gives the corpus it had loaded.
C14_SessionFilesAreNeverChanged ==
  /\ [][\A f \in SessionFiles : f \in results_dir']_vars
  /\ [](pc = "analyzed" => load_results(results_dir) = analyzer_results)

\* C14 witness: the analyzer has exported its CSV summary into a directory
\* that holds the session files of several cells and the summary report.
C14_Witness_AnalyzedDirectory ==
  /\ pc = "analyzed"
  /\ CsvFiles # {}
  /\ Cardinality(SessionFiles) >= 2
  /\ ReportFiles # {}

\* [str(call.get('value', '')) for call in calls if 'value' in call] of one
\* category of a log, no value for a category the log does not have.
ValuesOf(log, category) ==
  IF category \notin DOMAIN log THEN <<>>
  ELSE LET with_value == SelectSeq(log[category],
                                   LAMBDA call : "value" \in DOMAIN call)
       IN [i \in DOMAIN with_value |-> with_value[i].value]

\* The doubles 1.5 and 0.9182958340544896.
OneAndAHalfBits == <<0, 0, 0, 0, 0, 96>>

EntropyOfAAB == <<992, 74, 245, 446, 789, 58>>

\* C15: 'total' is the entropy of the values of all categories put
\* together in one list; for the log {canvas: [a, a, b], webgl: [x]} webgl
\* scores 0.0 and total is 1.5 bits, which is neither the sum nor the mean
\* of the entropies of the two categories.
C15_TotalIsEntropyOfAllValues ==
  calc_pc = "attribute_returned" =>
    /\ calc_ret[TotalKey] =
         calculate_shannon_entropy(ValuesOf(calc_arg, "canvas")
                                   \o ValuesOf(calc_arg, "webgl"))
    /\ (DOMAIN calc_arg = {"canvas", "webgl"}
        /\ ValuesOf(calc_arg, "canvas") = <<"a", "a", "b">>
        /\ ValuesOf(calc_arg, "webgl") = <<"x">>) =>
         /\ calc_ret.canvas = EntropyOfAAB
         /\ calc_ret.webgl = Zero
         /\ calc_ret.total = OneAndAHalfBits
         /\ calc_ret.total # FloatAdd(calc_ret.canvas, calc_ret.webgl)
         /\ calc_ret.total # FloatDiv(FloatAdd(calc_ret.canvas,
                                               calc_ret.webgl), 2)

\* C15 witness: the entropies of the log {canvas: [a, a, b], webgl: [x]}.
C15_Witness_ExampleLog ==
  /\ calc_pc = "attribute_returned"
  /\ calc_arg = LogWithCalls

\* C16: the empty log gives {total: 0.0} and nothing else; a log gives one
\* entry per category and 'total', and a category without a call or
\* without a call that has a value scores 0.0.
C16_EntropiesOfEmptyLogAndCategories ==
  calc_pc = "attribute_returned" =>
    /\ DOMAIN calc_arg = {} => calc_ret = [total |-> Zero]
    /\ DOMAIN calc_ret = DOMAIN calc_arg \cup {TotalKey}
    /\ \A category \in DOMAIN calc_arg :
         ValuesOf(calc_arg, category) = <<>> => calc_ret[category] = Zero

\* C16 witness: the entropies of a log with a category that has no call
\* and a category whose only call has no value.
C16_Witness_CategoriesWithoutValues ==
  /\ calc_pc = "attribute_returned"
  /\ DOMAIN calc_arg = {"canvas", "webgl"}
  /\ calc_arg.canvas = <<[method |-> "toDataURL"]>>
  /\ calc_arg.webgl = <<>>
  /\ calc_ret.canvas = Zero

\* The list with the values at i and j exchanged.
Swap(data, i, j) == [data EXCEPT ![i] = data[j], ![j] = data[i]]

\* C17: the entropy of a list is the entropy of every permutation of it
\* (stated for the exchanges of two places, which generate the
\* permutations), and it is not negative.
C17_EntropyIsPermutationInvariant ==
  calc_pc = "shannon_returned" =>
    /\ \A i, j \in DOMAIN calc_arg :
         calculate_shannon_entropy(Swap(calc_arg, i, j)) = calc_ret
    /\ ~FloatLess(calc_ret, Zero)

\* The double math.log2(n), for n up to 11.
Log2(n) ==
  LET table == << <<0, 0, 0, 0, 0, 0>>,
                  <<0, 0, 0, 0, 0, 64>>,
                  <<640, 757, 927, 104, 448, 101>>,
                  <<0, 0, 0, 0, 0, 128>>,
                  <<544, 283, 755, 900, 617, 148>>,
                  <<640, 757, 927, 104, 448, 165>>,
                  <<416, 33, 680, 831, 686, 179>>,
                  <<0, 0, 0, 0, 0, 192>>,
                  <<256, 491, 831, 209, 896, 202>>,
                  <<544, 283, 755, 900, 617, 212>>,
                  <<64, 746, 12, 318, 413, 221>> >>
  IN table[n]

Occurrences(data, v) == Cardinality({i \in DOMAIN data : data[i] = v})

\* Every value of the list occurs as often as every other.
EquallyFrequent(data) ==
  \A u, v \in Range(data) : Occurrences(data, u) = Occurrences(data, v)

\* C18: a list in which N distinct values occur equally often has the
\* entropy log2(N), which is 0.0 for a list of identical values, and the
\* empty list has the entropy 0.0.
C18_EntropyOfEquallyFrequentValues ==
  calc_pc = "shannon_returned" =>
    /\ calc_arg = <<>> => calc_ret = Zero
    /\ (calc_arg # <<>> /\ EquallyFrequent(calc_arg)) =>
         calc_ret = Log2(Cardinality(Range(calc_arg)))
    /\ (calc_arg # <<>> /\ Cardinality(Range(calc_arg)) = 1) =>
         calc_ret = Zero

\* The double 2^-40, and two doubles that are no further apart.
Tolerance == <<0, 64, 0, 0, 0, 0>>

WithinTolerance(x, y) ==
  /\ ~FloatLess(FloatAdd(x, Tolerance), y)
  /\ ~FloatLess(FloatAdd(y, Tolerance), x)

\* C18 as the code has it: a list in which N distinct values occur equally
\* often has an entropy within 2^-40 of log2(N); a list of identical
\* values and the empty list have the entropy 0.0 exactly.
C18_EntropyOfEquallyFrequentValuesWithinTolerance ==
  calc_pc = "shannon_returned" =>
    /\ calc_arg = <<>> => calc_ret = Zero
    /\ (calc_arg # <<>> /\ EquallyFrequent(calc_arg)) =>
         WithinTolerance(calc_ret, Log2(Cardinality(Range(calc_arg))))
    /\ (calc_arg # <<>> /\ Cardinality(Range(calc_arg)) = 1) =>
         calc_ret = Zero

\* C18 witness: the entropy of eleven values that occur once each, which
\* is not the double log2(11).
C18_Witness_ElevenDistinctValues ==
  /\ calc_pc = "shannon_returned"
  /\ calc_arg = ElevenDistinct
  /\ calc_ret # Log2(11)
  /\ WithinTolerance(calc_ret, Log2(11))

\* The analyzer has loaded the results directory.
Loaded == pc \in {"top_sites", "export", "analyzed"}

\* C19: the corpus the analyzer has loaded holds the content of every
\* session file of the results directory and of no summary report.
C19_AnalyzerLoadsEverySessionFile ==
  Loaded =>
    /\ \A f \in SessionFiles : f.content \in Range(analyzer_results)
    /\ \A f \in ReportFiles : f.content \notin Range(analyzer_results)

\* The place in the loaded corpus of the session a row of the ranking
\* shows.
CorpusIndex(row) ==
  CHOOSE k \in DOMAIN analyzer_results :
    /\ analyzer_results[k].website = row.website
    /\ analyzer_results[k].browser = row.browser

\* C20: the ranking has at most top_n rows, in non-increasing order of
\* total entropy, every row shows a successful session of the corpus, and
\* rows of equal total are in the order of the corpus.
C20_TopSitesRanking ==
  (pc \in {"export", "analyzed"} /\ top_sites # NoTopSites) =>
    LET listed == top_sites.listed IN
    /\ Len(listed) <= top_sites.top_n
    /\ \A i \in DOMAIN listed :
         /\ \E k \in DOMAIN analyzer_results :
              /\ analyzer_results[k].website = listed[i].website
              /\ analyzer_results[k].browser = listed[i].browser
         /\ analyzer_results[CorpusIndex(listed[i])].success
    /\ \A i, j \in DOMAIN listed :
         i < j =>
           /\ ~FloatLess(listed[i].entropy, listed[j].entropy)
           /\ listed[i].entropy = listed[j].entropy =>
                CorpusIndex(listed[i]) < CorpusIndex(listed[j])

\* C20 witness: a ranking of a corpus with a failed session, with two rows
\* of the same total and a row of a lower total.
C20_Witness_RankingWithTie ==
  /\ pc = "export"
  /\ \E k \in DOMAIN analyzer_results : ~analyzer_results[k].success
  /\ \E i, j \in DOMAIN top_sites.listed :
       i < j /\ top_sites.listed[i].entropy = top_sites.listed[j].entropy
  /\ \E i, j \in DOMAIN top_sites.listed :
       i < j /\ FloatLess(top_sites.listed[j].entropy,
                          top_sites.listed[i].entropy)

\* The mean of a category over the successful results that have it.
MeanOf(category) ==
  LET values == CategoryValues(
                  [i \in DOMAIN SelectSuccessful(all_results) |->
                     SelectSuccessful(all_results)[i].entropies], category)
  IN FloatDiv(SumSeq(values), Len(values))

\* C22: the summary report holds, for every category of the entropies of a
\* successful result of the run, the mean of the category over the
\* successful results that have it.
C22_ReportAveragesEveryCategory ==
  \A f \in ReportFiles :
    \A r \in Range(all_results) :
      r.success =>
        \A category \in DOMAIN r.entropies :
          /\ "average_entropies" \in DOMAIN f.content
          /\ category \in DOMAIN f.content.average_entropies
          /\ f.content.average_entropies[category] = MeanOf(category)

\* The steps of a session, and the steps that may follow a step.
SessionSteps ==
  {"start", "navigate", "inject", "simulate", "settle", "get_data",
   "get_stats"}

FollowingSteps(step) ==
  CASE step = "start" -> {"navigate", "close"}
    [] step = "navigate" -> {"inject", "build", "close"}
    [] step = "inject" -> {"simulate", "build", "close"}
    [] step = "simulate" -> {"settle", "close"}
    [] step = "settle" -> {"get_data", "close"}
    [] step = "get_data" -> {"get_stats", "build", "close"}
    [] step = "get_stats" -> {"build", "close"}
    [] step = "build" -> {"close"}
    [] step = "close" -> {"record", "cell", "summary"}

\* A step of the session has raised.
StepFailed == cell_exc' # "none" \/ pending'.kind = "KeyboardInterrupt"

\* C24: the steps of a session follow each other in the order launch,
\* navigate, inject, simulate, settle, retrieve the log and the stats,
\* return, close; after a step that raised only the return statement and
\* close follow, and after close no step of the session.
C24_SessionStepOrder ==
  [][/\ pc \in SessionSteps \cup {"build", "close"} =>
          pc' \in FollowingSteps(pc)
     /\ (pc \in SessionSteps /\ StepFailed) => pc' \in {"build", "close"}
     /\ pc' = "get_data" => (pc = "settle" /\ cell_exc = "none")]_vars

\* C24 witness: a session that went through every step has been closed
\* and its result is about to be recorded.
C24_Witness_CompleteSessionClosed ==
  /\ pc = "record"
  /\ result.success
  /\ cell_exc = "none"
  /\ session.driver \notin open_browsers

\* C26: when the stats retrieval raises or returns no mapping,
\* visit_website returns None whatever log it had retrieved, and the
\* session is recorded as failed with 'Failed to capture data' and without
\* the log; a session is successful only if no step of the visit raised.
C26_StatsFailureFailsSession ==
  /\ [][(pc = "get_stats" /\ cell_exc' = "stats") =>
          (pc' = "build" /\ fingerprint_data' = PyNone)]_vars
  /\ []((pc = "record" /\ cell_exc = "stats") =>
          /\ ~result.success
          /\ result.error = "Failed to capture data"
          /\ "fingerprint_data" \notin DOMAIN result)
  /\ []((pc = "record" /\ result.success) => cell_exc = "none")

\* C26 witness: the result of a session whose log was retrieved and whose
\* stats retrieval failed.
C26_Witness_StatsRetrievalFailed ==
  /\ pc = "record"
  /\ cell_exc = "stats"
  /\ ~result.success


(***************************************************************************)
(* print_temporal_analysis.                                                *)
(***************************************************************************)
HalfBit == <<0, 0, 0, 0, 0, 32>>
TwoBits == <<0, 0, 0, 0, 0, 128>>

\* The totals of the successful sessions of a visit, in corpus order.
VisitTotals(visit) ==
  LET sessions == SelectSeq(analyzer_results,
                            LAMBDA r : r.success /\ r.visit_number = visit)
  IN [i \in DOMAIN sessions |-> sessions[i].entropies.total]

VisitMean(visit) ==
  FloatDiv(SumSeq(VisitTotals(visit)), Len(VisitTotals(visit)))

\* d: the absolute difference of the two means.
MeanDifference == FloatAbsDiff(VisitMean(2), VisitMean(1))

\* C21: for a corpus with successful sessions of both visits, the stability
\* print_temporal_analysis prints is high exactly when d < 0.5, medium
\* exactly when 0.5 <= d < 2 and low exactly when d >= 2, d being the
\* absolute difference of the mean totals of the two visits; when a visit
\* has no successful session it prints no stability.
C21_TemporalStabilityThresholds ==
  view_pc = "temporal_printed" =>
    IF VisitTotals(1) # <<>> /\ VisitTotals(2) # <<>>
    THEN /\ view.printed = "temporal"
         /\ view.stability = "ELEVEE" <=> FloatLess(MeanDifference, HalfBit)
         /\ view.stability = "MOYENNE" <=>
              /\ ~FloatLess(MeanDifference, HalfBit)
              /\ FloatLess(MeanDifference, TwoBits)
         /\ view.stability = "FAIBLE" <=> ~FloatLess(MeanDifference, TwoBits)
         /\ view.stability \in {"ELEVEE", "MOYENNE", "FAIBLE"}
    ELSE /\ view.printed = "Donnees insuffisantes"
         /\ "stability" \notin DOMAIN view

\* The two means differ by exactly 0.5 and the stability printed is medium.
C21_Witness_DifferenceExactlyHalf ==
  /\ view_pc = "temporal_printed"
  /\ VisitTotals(1) # <<>>
  /\ VisitTotals(2) # <<>>
  /\ MeanDifference = HalfBit
  /\ view.stability = "MOYENNE"

(***************************************************************************)
(* print_geographic_analysis.                                              *)
(***************************************************************************)
\* The host of a website and its top-level domain suffix.
HostOf(website) == website[2]

LastDot(host) ==
  CHOOSE i \in 1..Len(host) :
    /\ SubSeq(host, i, i) = "."
    /\ \A j \in (i + 1)..Len(host) : SubSeq(host, j, j) # "."

TldOf(website) ==
  SubSeq(HostOf(website), LastDot(HostOf(website)), Len(HostOf(website)))

\* The region of a website by its top-level domain suffix.
TldRegion(website) ==
  IF TldOf(website) \in europe_domains THEN "Europe"
  ELSE IF TldOf(website) \in asia_domains THEN "Asie"
  ELSE IF TldOf(website) \in {".com", ".org"} THEN "Amerique du Nord"
  ELSE "Autre"

SessionsOfTldRegion(region) ==
  { i \in DOMAIN analyzer_results :
      /\ analyzer_results[i].success
      /\ TldRegion(analyzer_results[i].website) = region }

\* C23: print_geographic_analysis counts every successful session in the
\* region of the top-level domain suffix of its website and in no other:
\* the row of a region shows the number of the successful sessions whose
\* suffix belongs to the region, and a region without such a session has no
\* row.
C23_RegionByTopLevelDomain ==
  view_pc = "geographic_printed" =>
    \A region \in RegionNames :
      IF SessionsOfTldRegion(region) = {}
      THEN region \notin DOMAIN view.rows
      ELSE /\ region \in DOMAIN view.rows
           /\ view.rows[region].sites = Cardinality(SessionsOfTldRegion(region))


(***************************************************************************)
(* _simulate_user_behavior.                                                *)
(***************************************************************************)
\* C25: the loop of _simulate_user_behavior ends: it returns, and it
\* returns only once the duration has elapsed; an action that raised is
\* followed by the next test of the loop, not by the end of the method,
\* and between two tests of the loop the time has advanced.
C25_SimulationLoopTerminates ==
  /\ <>(sim_pc = "returned")
  /\ [](sim_pc = "returned" => time_now - start_time >= duration)
  /\ [](sim_pc \in {"start", "while", "choose", "script", "sleep", "except",
                    "returned"})
  /\ [][sim_pc = "except" => sim_pc' = "while"]_vars
  /\ [][(sim_pc \in {"sleep", "except"} /\ sim_pc' = "while")
          => time_now' > time_now]_vars

\* The loop has returned after an action raised and another was performed.
C25_Witness_ReturnedAfterException ==
  /\ sim_pc = "returned"
  /\ error_logged
  /\ actions_performed > 0
  /\ time_now - start_time >= duration

====
